---- MODULE Spec2Model ----
(***************************************************************************)
(* Model of ocp_tessellate/convert_alt.py: the scene-graph builder         *)
(* (to_assembly / _to_assembly), the instance cache (get_instance,         *)
(* relocate) and the tessellation scheduler (tessellate_group).            *)
(*                                                                         *)
(* Input objects carry the outcome of the kernel's classification          *)
(* predicates as a tag (field kind).  Locations are the elements of the    *)
(* permutation group S3 (axis permutations: rigid motions that do not      *)
(* commute), so that the order of a composition is observable.             *)
(***************************************************************************)
EXTENDS Integers, Sequences, FiniteSets, TLC

\* ------------------------------------------------------------------ fields
\* the fields of the records of the model and their rank; every record is
\* written with its fields in this order
Fields ==
    [kind |-> 1, wrapped |-> 2, label |-> 3, name |-> 4, color |-> 5, loc |-> 6, key |-> 7,
     tshape |-> 8, dim |-> 9, elems |-> 10, obj |-> 11, children |-> 12, keys |-> 13,
     node |-> 14, type |-> 15, objects |-> 16, ref |-> 17, shape |-> 18, rgba |-> 19,
     empty |-> 20, c |-> 21, a |-> 22, given |-> 23, v |-> 24, min |-> 25, max |-> 26,
     part |-> 27, pg |-> 28, grp |-> 29, instances |-> 30, is_assembly |-> 31, err |-> 32,
     diag |-> 33, vertices |-> 34, leaf |-> 35, parts |-> 36, bb |-> 37]

\* ------------------------------------------------------------------ bounds
\* largest number of objects passed to one to_assembly call
MaxObjs == 2

\* ------------------------------------------------------------- None values
NoneName == "<None>"
NoneColor == "<none>"
NoneAlpha == -1
NoneLoc == <<>>
NoneRef == -1

\* --------------------------------------------------------------- locations
Perms == {<<1, 2, 3>>, <<2, 1, 3>>, <<1, 3, 2>>, <<3, 2, 1>>, <<2, 3, 1>>, <<3, 1, 2>>}

identity_location == <<1, 2, 3>>

\* a * b : apply b first, then a
Mul(a, b) == [i \in 1..3 |-> a[b[i]]]

Inverted(a) == CHOOSE b \in Perms : Mul(a, b) = identity_location

T1 == <<2, 1, 3>>
T2 == <<1, 3, 2>>

\* get_location(obj, as_none=False): the identity when the object has none
get_location_not_none(obj) == IF obj.loc = NoneLoc THEN identity_location ELSE obj.loc

\* ------------------------------------------------------------------ colors
default_color == "default"
FACE_COLOR == "Violet"
THICK_EDGE_COLOR == "MediumOrchid"
VERTEX_COLOR == "MediumOrchid"

\* get_rgba(color, alpha, def): the color given or the default, the alpha
\* given or fully opaque (alpha in percent)
get_rgba(color, alpha, def) ==
    [c |-> IF color = NoneColor THEN def ELSE color,
     a |-> IF alpha = NoneAlpha THEN 100 ELSE alpha]

\* ------------------------------------------------------------------- names
\* make_unique(names): the k-th occurrence (k > 1) of a name is suffixed ~k
make_unique(names) ==
    [i \in 1..Len(names) |->
        LET k == Cardinality({j \in 1..i : names[j] = names[i]})
        IN  IF k = 1 THEN names[i] ELSE names[i] \o "~" \o ToString(k)]

\* get_name(name, obj, singular, plural)
get_name(name, obj, singular, plural) ==
    IF name # NoneName THEN name
    ELSE IF Len(obj) > 1 THEN plural ELSE singular

\* ------------------------------------------------------- elementary shapes
\* a TopoDS shape: its dimension, the identity of its TShape, its location
Sh(dim, tshape, loc) == [loc |-> loc, tshape |-> tshape, dim |-> dim]

\* ----------------------------------------------------------- input objects
\* kind: the classification of the object; wrapped: it has a .wrapped shape;
\* label, name, color, loc: its attributes (None when it has none);
\* tshape: the identity of its TShape; dim: _dim of a build123d compound;
\* elems: the elementary shapes its wrapped shape downcasts to;
\* obj: the shape of a cadquery assembly (at most one); children: the
\* sub-assemblies or elements; keys: the keys of a dict; node: the CAD object
\* passed through
Obj(kind, wrapped, label, name, color, loc, tshape, dim, elems, obj, children, keys, node) ==
    [kind |-> kind, wrapped |-> wrapped, label |-> label, name |-> name,
     color |-> color, loc |-> loc, tshape |-> tshape, dim |-> dim,
     elems |-> elems, obj |-> obj, children |-> children, keys |-> keys,
     node |-> node]

\* ------------------------------------------------------------------- nodes
\* OCP_PartGroup, OCP_Part, OCP_Faces, OCP_Edges, OCP_Vertices, CoordSystem
Node(type, name, loc, objects, ref, shape, rgba, empty) ==
    [name |-> name, loc |-> loc, type |-> type, objects |-> objects,
     ref |-> ref, shape |-> shape, rgba |-> rgba, empty |-> empty]

NoRgba == [c |-> NoneColor, a |-> NoneAlpha]

OCP_PartGroup(objects, name, loc) ==
    Node("group", name, loc, objects, NoneRef, <<>>, NoRgba, FALSE)

\* OCP_PartRef with the index one too high (len(instances) for
\* len(instances) - 1)
OCP_PartRefNext(i, name, rgba) ==
    Node("part", name, NoneLoc, <<>>, i + 1, <<>>, rgba, FALSE)

\* OCP_Part({"ref": i}, cache_id, name, rgba)
OCP_PartRef(i, name, rgba) ==
    Node("part", name, NoneLoc, <<>>, i, <<>>, rgba, FALSE)

\* an OCP_Part / OCP_Faces / OCP_Edges / OCP_Vertices that owns its shapes
OCP_Inline(type, shapes, name, rgba, empty) ==
    Node(type, name, NoneLoc, <<>>, NoneRef, shapes, rgba, empty)

CoordSystem(name, loc) ==
    Node("coord", name, loc, <<>>, NoneRef, <<>>, NoRgba, FALSE)

IsGroup(n) == n.type = "group"

\* --------------------------------------------------------------- relocate
\* obj.wrapped.Move(m): the location of the shape becomes m * location
Moved(obj, m) ==
    [obj EXCEPT !.loc = Mul(m, obj.loc),
                !.elems = [i \in 1..Len(obj.elems) |->
                              [obj.elems[i] EXCEPT !.loc = Mul(m, obj.elems[i].loc)]]]

\* relocate(obj) -> (obj, loc)
relocate(obj) ==
    IF obj.loc = NoneLoc \/ ~obj.wrapped
    THEN [loc |-> identity_location, obj |-> obj]
    ELSE [loc |-> obj.loc, obj |-> Moved(obj, Inverted(obj.loc))]

\* ------------------------------------------------------------------- conv
AllDim(cad_objs, d) == \A i \in 1..Len(cad_objs) : cad_objs[i].dim = d

ShapeKinds == {"solid", "face", "edge", "vertex", "compound", "compound_ni",
               "topods_solid", "topods_shape", "topods_compound", "shapelist"}

\* conv(cad_obj, obj_name, obj_color, obj_alpha) -> the CAD object, or the
\* exception raised
conv(cad_obj, obj_name0, obj_color, obj_alpha) ==
    LET obj_name == IF obj_name0 = NoneName /\ cad_obj.label # NoneName /\ cad_obj.label # ""
                    THEN cad_obj.label ELSE obj_name0
        cad_objs == cad_obj.elems
        ok(part) == [part |-> part, err |-> ""]
        raise(e) == [part |-> OCP_PartGroup(<<>>, "", NoneLoc), err |-> e]
    IN  IF cad_obj.kind \in {"list", "dict"} THEN raise("ValueError")
        \* a ShapeList without elements: "Empty list cannot be tessellated"
        ELSE IF cad_obj.kind = "shapelist" /\ Len(cad_objs) = 0 THEN raise("ValueError")
        ELSE IF cad_obj.kind \notin ShapeKinds THEN raise("RuntimeError")
        ELSE IF Len(cad_objs) = 0
        THEN ok(OCP_Inline("vertices", <<Sh("vertex", 0, identity_location)>>,
                           get_name(obj_name, cad_objs, "Object", "Objects") \o " (empty)",
                           get_rgba(obj_color, 10, VERTEX_COLOR), TRUE))
        ELSE IF AllDim(cad_objs, "solid")
        THEN ok(OCP_Inline("part", cad_objs,
                           get_name(obj_name, cad_objs, "Solid", "Solids"),
                           get_rgba(obj_color, obj_alpha, default_color), FALSE))
        ELSE IF AllDim(cad_objs, "face")
        THEN ok(OCP_Inline("faces", cad_objs,
                           get_name(obj_name, cad_objs, "Face", "Faces"),
                           get_rgba(obj_color, obj_alpha, FACE_COLOR), FALSE))
        ELSE IF AllDim(cad_objs, "edge")
        THEN ok(OCP_Inline("edges", cad_objs,
                           get_name(obj_name, cad_objs, "Edge", "Edges"),
                           get_rgba(obj_color, 100, THICK_EDGE_COLOR), FALSE))
        ELSE IF AllDim(cad_objs, "vertex")
        THEN ok(OCP_Inline("vertices", cad_objs,
                           get_name(obj_name, cad_objs, "Vertex", "Vertices"),
                           get_rgba(obj_color, 100, VERTEX_COLOR), FALSE))
        ELSE raise("RuntimeError")

\* ----------------------------------------------------------- get_instance
\* FindInstance that compares the last entry of the table only
FindInstanceLast(instances, key) ==
    IF Len(instances) > 0 /\ instances[Len(instances)].key = key
    THEN Len(instances)
    ELSE 0

\* the index (from 1) of the first entry of instances with this key, or 0
FindInstance(instances, key) ==
    IF \E i \in 1..Len(instances) : instances[i].key = key
    THEN CHOOSE i \in 1..Len(instances) :
            /\ instances[i].key = key
            /\ \A j \in 1..(i - 1) : instances[j].key # key
    ELSE 0

\* get_instance with the new entry put first (instances.insert(0, ...) for
\* instances.append(...))
get_instance_insert(obj0, name, rgba, instances) ==
    LET r == relocate(obj0)
        obj == r.obj
        loc == r.loc
        i == FindInstance(instances, obj.tshape)
        c == conv(obj, name, rgba.c, rgba.a)
    IN  IF i > 0
        THEN [part |-> [OCP_PartRef(i - 1, IF name # NoneName THEN name ELSE "Solid", rgba)
                            EXCEPT !.loc = loc],
              instances |-> instances, err |-> ""]
        ELSE IF c.err # ""
        THEN [part |-> c.part, instances |-> instances, err |-> c.err]
        ELSE [part |-> [OCP_PartRef(0, c.part.name, rgba)
                            EXCEPT !.loc = loc, !.empty = c.part.empty],
              instances |-> <<[key |-> obj.tshape, shape |-> c.part.shape[1]]>> \o instances,
              err |-> ""]

\* get_instance(obj, cache_id, name, rgba, instances, progress)
\*   -> the referential part, the shape table, or the exception raised
get_instance(obj0, name, rgba, instances) ==
    LET r == relocate(obj0)
        obj == r.obj
        loc == r.loc
        i == FindInstance(instances, obj.tshape)
        c == conv(obj, name, rgba.c, rgba.a)
    IN  IF i > 0
        THEN [part |-> [OCP_PartRef(i - 1, IF name # NoneName THEN name ELSE "Solid", rgba)
                            EXCEPT !.loc = loc],
              instances |-> instances, err |-> ""]
        ELSE IF c.err # ""
        THEN [part |-> c.part, instances |-> instances, err |-> c.err]
        ELSE [part |-> [OCP_PartRef(Len(instances), c.part.name, rgba)
                            EXCEPT !.loc = loc, !.empty = c.part.empty],
              instances |-> Append(instances, [key |-> obj.tshape, shape |-> c.part.shape[1]]),
              err |-> ""]

\* ------------------------------------------------------------ _to_assembly
\* an optional list argument (names, colors, alphas): absent, or a list
Absent == [given |-> FALSE, v |-> <<>>]
Given(list) == [given |-> TRUE, v |-> list]

Min(a, b) == IF a < b THEN a ELSE b

\* the number of items zip(names, colors, alphas, cad_objs) yields
ZipLen(names, colors, alphas, n) ==
    Min(Min(IF names.given THEN Len(names.v) ELSE n,
            IF colors.given THEN Len(colors.v) ELSE n),
        Min(IF alphas.given THEN Len(alphas.v) ELSE n, n))

\* OCP_PartGroup.add that puts the object first (objects.insert(0, obj) for
\* objects.append(obj))
AddFirst(group, obj) == [group EXCEPT !.objects = <<obj>> \o @]

\* OCP_PartGroup.add(obj)
Add(group, obj) == [group EXCEPT !.objects = Append(@, obj)]

\* names = make_unique([obj.name for obj in group.objects]); obj.name = name
Uniq(group) ==
    LET names == make_unique([i \in 1..Len(group.objects) |-> group.objects[i].name])
    IN  [group EXCEPT !.objects = [i \in 1..Len(group.objects) |->
                                      [group.objects[i] EXCEPT !.name = names[i]]]]

\* get_object_name(part)
get_object_name(part) ==
    CASE part.type = "part" -> "Solid"
      [] part.type = "faces" -> "Face"
      [] part.type = "edges" -> "Edge"
      [] part.type = "vertices" -> "Vertex"
      [] OTHER -> "Part"

\* cad_obj.wrapped: the kernel shape of a wrapper, without its attributes
Unwrap(cad_obj) ==
    [cad_obj EXCEPT !.kind = "topods_compound", !.wrapped = FALSE,
                    !.label = NoneName, !.name = NoneName, !.color = NoneColor]

\* child.wrapped of an element of a compound
RawShape(sh) ==
    Obj("topods_shape", FALSE, NoneName, NoneName, NoneColor, sh.loc, sh.tshape, 0,
        <<sh>>, <<>>, <<>>, <<>>, <<>>)

\* cad_obj.solids()[0]: the solid of a compound, as a wrapper of its own
SolidOf(sh) ==
    Obj("solid", TRUE, "", NoneName, NoneColor, sh.loc, sh.tshape, 0,
        <<sh>>, <<>>, <<>>, <<>>, <<>>)

is_mixed_compound(cad_obj) ==
    \E i, j \in 1..Len(cad_obj.elems) : cad_obj.elems[i].dim # cad_obj.elems[j].dim

\* make_unique(pg.objects); return pg, instances
Returned(st) ==
    [pg |-> Uniq(st.pg), instances |-> st.instances, err |-> st.err, diag |-> st.diag]

\* (6.1) ass.add(part) of the result of a child
CqAdd(acc, r) ==
    [grp |-> Add(acc.grp, r.pg), instances |-> r.instances,
     err |-> r.err, diag |-> acc.diag + r.diag]

\* (6.2) a result with one object is added as that object, moved to the
\* location of the result composed with its own
B3dAdd(acc, r) ==
    LET part == r.pg
        first == part.objects[1]
        lifted == [first EXCEPT !.loc = IF first.loc = NoneLoc THEN part.loc
                                        ELSE Mul(part.loc, first.loc)]
    IN  [grp |-> IF r.err # "" THEN acc.grp
                 ELSE IF Len(part.objects) = 1 THEN Add(acc.grp, lifted)
                 ELSE Add(acc.grp, part),
         instances |-> r.instances,
         err |-> r.err, diag |-> acc.diag + r.diag]

\* (6.5) a result with one object is added as that object, an empty one
\* is dropped
IterAdd(acc, r) ==
    LET part == r.pg
    IN  [grp |-> IF r.err # "" THEN acc.grp
                 ELSE IF Len(part.objects) = 1 THEN Add(acc.grp, part.objects[1])
                 ELSE IF Len(part.objects) > 0 THEN Add(acc.grp, part)
                 ELSE acc.grp,
         instances |-> r.instances,
         err |-> r.err, diag |-> acc.diag + r.diag]

\* (6.1) the end of the branch: pg.add(ass) or pg = ass
CqResult(st, a2) ==
    [pg |-> IF ~st.is_assembly THEN Add(st.pg, a2.grp) ELSE a2.grp,
     instances |-> a2.instances, is_assembly |-> TRUE,
     err |-> a2.err, diag |-> a2.diag]

\* (6.2) the end of the branch: make_unique(pg2.objects); pg.add(pg2)
B3dResult(st, a) ==
    [pg |-> Add(st.pg, Uniq(a.grp)), instances |-> a.instances,
     is_assembly |-> TRUE, err |-> a.err, diag |-> a.diag]

\* (6.5) the end of the branch: pg2 is added, or its only object, or nothing
IterResult(st, a) ==
    [st EXCEPT !.pg = IF Len(a.grp.objects) = 0 THEN st.pg
                      ELSE IF Len(a.grp.objects) = 1 THEN Add(st.pg, a.grp.objects[1])
                      ELSE Add(st.pg, Uniq(a.grp)),
               !.instances = a.instances, !.err = a.err, !.diag = a.diag]

\* (1) a scalar that is skipped but printed as skipped, as (2) does
SkipPrinted(st) == [st EXCEPT !.diag = @ + 1]

\* (1) continue: the iteration ends and leaves the state of the loop alone
Skip(st) == st

RECURSIVE to_assembly_loop(_, _, _, _, _, _)
RECURSIVE ProcessObj(_, _, _, _, _)
RECURSIVE CqChildren(_, _, _, _, _, _)
RECURSIVE B3dChildren(_, _, _, _, _)
RECURSIVE IterChildren(_, _, _, _, _, _, _)

\* _to_assembly(*cad_objs, names, colors, alphas, instances, is_assembly)
\*   -> pg, instances (or the exception raised; diag counts the messages
\*   printed for skipped objects)
InnerToAssembly(cad_objs, names0, colors0, alphas0, instances, is_assembly) ==
    LET n == Len(cad_objs)
        names == IF names0.given THEN make_unique(names0.v) ELSE [i \in 1..n |-> NoneName]
        colors == IF colors0.given THEN colors0.v ELSE [i \in 1..n |-> NoneColor]
        alphas == IF alphas0.given THEN alphas0.v ELSE [i \in 1..n |-> NoneAlpha]
        st0 == [pg |-> OCP_PartGroup(<<>>, "Group", identity_location),
                instances |-> instances, is_assembly |-> is_assembly,
                err |-> "", diag |-> 0]
    IN  Returned(to_assembly_loop(st0, 1, names, colors, alphas, cad_objs))

\* for obj_name, obj_color, obj_alpha, cad_obj in zip(names, colors, alphas, cad_objs)
to_assembly_loop(st, k, names, colors, alphas, cad_objs) ==
    IF k > Min(Min(Len(names), Len(colors)), Min(Len(alphas), Len(cad_objs))) \/ st.err # ""
    THEN st
    ELSE to_assembly_loop(ProcessObj(st, names[k], colors[k], alphas[k], cad_objs[k]),
                          k + 1, names, colors, alphas, cad_objs)

\* (6.1) for child in cad_obj.children: ass.add(_to_assembly(child, ...))
CqChildren(children, k, acc, obj_name, obj_color, obj_alpha) ==
    IF k > Len(children) \/ acc.err # "" THEN acc
    ELSE CqChildren(children, k + 1,
                    CqAdd(acc, InnerToAssembly(<<children[k]>>, Given(<<obj_name>>),
                                               Given(<<obj_color>>), Given(<<obj_alpha>>),
                                               acc.instances, TRUE)),
                    obj_name, obj_color, obj_alpha)

\* (6.2) for child in cad_obj.children: flatten a single-object result
B3dChildren(children, k, acc, obj_color, obj_alpha) ==
    IF k > Len(children) \/ acc.err # "" THEN acc
    ELSE B3dChildren(children, k + 1,
                     B3dAdd(acc, InnerToAssembly(<<children[k]>>, Absent,
                                                 Given(<<obj_color>>), Given(<<obj_alpha>>),
                                                 acc.instances, TRUE)),
                     obj_color, obj_alpha)

\* (6.5) for name, child in named_child: lift a single-object result
IterChildren(cad_obj, k, acc, obj_name, obj_color, obj_alpha, is_assembly) ==
    IF k > Len(cad_obj.children) \/ acc.err # "" THEN acc
    ELSE LET child == cad_obj.children[k]
             name == IF child.name # NoneName THEN child.name
                     ELSE IF child.label # NoneName /\ child.label # "" THEN child.label
                     ELSE IF cad_obj.kind # "dict" THEN obj_name
                     ELSE cad_obj.keys[k]
         IN  IterChildren(cad_obj, k + 1,
                          IterAdd(acc, InnerToAssembly(<<child>>, Given(<<name>>),
                                                       Given(<<obj_color>>),
                                                       Given(<<obj_alpha>>),
                                                       acc.instances, is_assembly)),
                          obj_name, obj_color, obj_alpha, is_assembly)

\* (6.10.1) for child in cad_obj: pg.add(conv(child.wrapped, ...))
MixedChildren(elems, pg, obj_name, color, alpha) ==
    LET c(i) == conv(RawShape(elems[i]), obj_name, color, alpha)
    IN  IF \E i \in 1..Len(elems) : c(i).err # ""
        THEN [pg |-> pg, err |-> "RuntimeError"]
        ELSE [pg |-> [pg EXCEPT !.objects = @ \o [i \in 1..Len(elems) |-> c(i).part]],
              err |-> ""]

\* one iteration of the loop of _to_assembly over (obj_name, obj_color,
\* obj_alpha, cad_obj); st holds pg, instances, is_assembly
ProcessObj(st, obj_name0, obj_color, obj_alpha, cad_obj) ==
    LET kind == cad_obj.kind
        \* the end of every iteration that is not skipped:
        \* if pg.loc is None: pg.loc = identity_location()
        fix(res) == [res EXCEPT !.pg = [@ EXCEPT !.loc = IF @ = NoneLoc THEN identity_location
                                                          ELSE @]]
        \* (3) extract color and alpha
        own == get_rgba(cad_obj.color, obj_alpha, default_color)
        color == IF cad_obj.color # NoneColor THEN own.c ELSE obj_color
        alpha == IF cad_obj.color # NoneColor THEN own.a ELSE obj_alpha
        rgba == get_rgba(color, alpha, default_color)
        \* (4) extract the object name
        obj_name == IF obj_name0 # NoneName THEN obj_name0
                    ELSE IF cad_obj.label # NoneName /\ cad_obj.label # "" THEN cad_obj.label
                    ELSE IF cad_obj.name # NoneName /\ cad_obj.name # "" THEN cad_obj.name
                    ELSE NoneName
        \* the end of an iteration that added part to pg
        added(part, instances) ==
            [st EXCEPT !.pg = Add(st.pg, part), !.instances = instances]
        raised(e) == [st EXCEPT !.err = e]
        from(gi) == IF gi.err # "" THEN raised(gi.err) ELSE added(gi.part, gi.instances)
        named(gi, name) == IF gi.err # "" THEN gi
                           ELSE [gi EXCEPT !.part = [gi.part EXCEPT !.name = name]]
        conv_(o, name) == LET c == conv(o, name, color, alpha)
                          IN  [part |-> c.part, instances |-> st.instances, err |-> c.err]
    IN
    \* (1) silently skip enums and known types
    IF kind = "scalar" THEN Skip(st)
    \* (2) print a skipping message for anything that is no CAD object
    ELSE IF kind = "unsupported" THEN [st EXCEPT !.diag = @ + 1]
    ELSE fix(
    \* (6.1) cadquery assemblies
    IF kind \in {"cq_assembly", "cq_massembly"} THEN
        LET pg1 == IF st.is_assembly
                   THEN [st.pg EXCEPT !.name = cad_obj.name,
                                      !.loc = get_location_not_none(cad_obj)]
                   ELSE st.pg
            ass0 == IF st.is_assembly THEN pg1
                    ELSE OCP_PartGroup(<<>>, IF obj_name = NoneName THEN "Group" ELSE obj_name,
                                       get_location_not_none(cad_obj))
            gi == IF kind = "cq_massembly"
                  THEN conv_(cad_obj.obj[1], cad_obj.name)
                  ELSE get_instance(cad_obj.obj[1], pg1.name, rgba, st.instances)
            a1 == IF Len(cad_obj.obj) = 0
                  THEN [grp |-> ass0, instances |-> st.instances, err |-> "", diag |-> st.diag]
                  ELSE [grp |-> Add(ass0, gi.part), instances |-> gi.instances,
                        err |-> gi.err, diag |-> st.diag]
        IN  CqResult(st, CqChildren(cad_obj.children, 1, a1, obj_name, obj_color, obj_alpha))
    \* (6.2) build123d assemblies
    ELSE IF kind = "b3d_assembly" THEN
        LET pg2 == OCP_PartGroup(<<>>, IF obj_name = NoneName THEN "Assembly" ELSE obj_name,
                                 get_location_not_none(cad_obj))
        IN  B3dResult(st, B3dChildren(cad_obj.children, 1,
                                      [grp |-> pg2, instances |-> st.instances, err |-> "",
                                       diag |-> st.diag],
                                      obj_color, obj_alpha))
    \* (6.5) iterables other than compounds and shape lists
    ELSE IF kind \in {"list", "dict"} THEN
        LET pg2 == OCP_PartGroup(<<>>, IF obj_name # NoneName THEN obj_name
                                       ELSE IF kind = "dict" THEN "Dict" ELSE "List",
                                 NoneLoc)
        IN  IterResult(st, IterChildren(cad_obj, 1,
                                        [grp |-> pg2, instances |-> st.instances, err |-> "",
                                         diag |-> st.diag],
                                        obj_name, obj_color, obj_alpha, st.is_assembly))
    \* (6.6) locations and planes
    ELSE IF kind = "location" THEN
        added(CoordSystem(IF obj_name = NoneName THEN "location" ELSE obj_name, cad_obj.loc),
              st.instances)
    \* (6.8) an OCP_PartGroup is added as it is, its children renamed
    ELSE IF kind = "ocp_partgroup" THEN added(Uniq(cad_obj.node[1]), st.instances)
    \* (6.9) OCP_Part, OCP_Faces, OCP_Edges, OCP_Vertices are added as they are
    ELSE IF kind = "ocp_part" THEN added(cad_obj.node[1], st.instances)
    \* (6.10) compounds
    ELSE IF kind \in {"compound", "compound_ni"} THEN
        IF is_mixed_compound(cad_obj)
        THEN LET m == MixedChildren(cad_obj.elems, st.pg, obj_name, color, alpha)
             IN  [st EXCEPT !.pg = m.pg, !.err = m.err]
        ELSE LET name3 == IF obj_name = NoneName \/ obj_name = "" THEN "Solid" ELSE obj_name
                 name == IF cad_obj.dim = 3 THEN name3 ELSE obj_name
                 gi == IF cad_obj.dim = 3 /\ kind = "compound_ni"
                       THEN get_instance(cad_obj, name, rgba, st.instances)
                       ELSE IF cad_obj.dim = 3 /\ Len(cad_obj.elems) = 1
                       THEN get_instance(SolidOf(cad_obj.elems[1]), name, rgba, st.instances)
                       ELSE IF cad_obj.dim = 3
                       THEN conv_(Unwrap(cad_obj), name)
                       ELSE IF cad_obj.dim = 2
                       THEN get_instance(cad_obj, name, rgba, st.instances)
                       ELSE conv_(Unwrap(cad_obj), name)
             IN  IF gi.err = "" /\ st.is_assembly /\ name # NoneName /\ ~gi.part.empty
                 THEN from(named(gi, name))
                 ELSE from(gi)
    \* (6.11) TopoDS_Solid
    ELSE IF kind = "topods_solid" THEN
        from(get_instance(cad_obj, obj_name, rgba, st.instances))
    \* default: objects that are not iterable
    ELSE
        LET is_solid == cad_obj.wrapped /\ AllDim(cad_obj.elems, "solid")
            gi == get_instance(cad_obj, obj_name, rgba, st.instances)
            other == IF kind = "topods_compound"
                     THEN get_instance(cad_obj, obj_name,
                                       get_rgba(color, alpha, default_color), st.instances)
                     ELSE conv_(cad_obj, obj_name)
        IN  IF is_solid
            THEN IF obj_name = NoneName /\ gi.err = ""
                 THEN from(named(gi, get_object_name(gi.part)))
                 ELSE from(gi)
            ELSE IF other.err = "" /\ other.part.name = NoneName
                 THEN from(named(other, get_object_name(other.part)))
                 ELSE from(other))

\* to_assembly, after _to_assembly has returned pg: a group that is the
\* only object of pg replaces it
TopFlatten(pg) ==
    IF Len(pg.objects) = 1 /\ IsGroup(pg.objects[1])
    THEN LET first == pg.objects[1]
         IN  [first EXCEPT !.loc = IF first.loc = NoneLoc THEN pg.loc
                                   ELSE IF pg.loc # NoneLoc THEN Mul(pg.loc, first.loc)
                                   ELSE first.loc]
    ELSE pg

\* -------------------------------------------------------- tessellate_group
\* the axis-aligned box of the vertices of a shape of identity t in its
\* canonical pose
BaseBox(t) == [min |-> <<t, t, t>>, max |-> <<2 * t, 3 * t, 4 * t>>]

\* a location applied to a point: the axes are permuted
ApplyLoc(p, v) == [i \in 1..3 |-> v[Inverted(p)[i]]]

\* np_bbox(vertices, *loc): the box of the vertices moved to loc
np_bbox(box, loc) ==
    IF box.min = <<>> THEN box
    ELSE [min |-> ApplyLoc(loc, box.min), max |-> ApplyLoc(loc, box.max)]

\* tessellate(shape, ...): the mesh of a shape table entry, with the
\* vertices at the pose the stored shape has
tessellate(shape) ==
    [tshape |-> shape.tshape, vertices |-> np_bbox(BaseBox(shape.tshape), shape.loc)]

NoBB == [min |-> <<>>, max |-> <<>>]

Max(a, b) == IF a > b THEN a ELSE b

\* BoundingBox.update
BoxUnion(b1, b2) ==
    IF b1 = NoBB THEN b2
    ELSE IF b2 = NoBB THEN b1
    ELSE [min |-> [i \in 1..3 |-> Min(b1.min[i], b2.min[i])],
          max |-> [i \in 1..3 |-> Max(b1.max[i], b2.max[i])]]

RECURSIVE ShapesBox(_, _)
\* bounding_box(shape, loc) of the shapes an object owns
ShapesBox(shapes, k) ==
    IF k > Len(shapes) THEN NoBB
    ELSE BoxUnion(np_bbox(BaseBox(shapes[k].tshape), shapes[k].loc), ShapesBox(shapes, k + 1))

RECURSIVE collect_tasks(_)
\* group.collect_tasks: the tree of dicts tessellate_group works on; a leaf
\* has no "parts", an OCP_Part or OCP_Faces has type "shapes"
collect_tasks(node) ==
    [name |-> node.name, loc |-> node.loc,
     type |-> CASE node.type \in {"part", "faces"} -> "shapes"
                [] OTHER -> node.type,
     ref |-> node.ref, shape |-> node.shape, leaf |-> ~IsGroup(node),
     parts |-> [i \in 1..Len(node.objects) |-> collect_tasks(node.objects[i])],
     bb |-> NoBB]

RECURSIVE AddBBRaises(_)
\* add_bb reads shape["shape"]["ref"] of every leaf of type "shapes"
AddBBRaises(shapes) ==
    IF shapes.leaf THEN shapes.type = "shapes" /\ shapes.ref = NoneRef
    ELSE \E i \in 1..Len(shapes.parts) : AddBBRaises(shapes.parts[i])

RECURSIVE add_bb(_, _)
\* add_bb(shapes) followed by discretize_edges_vertices(shapes)
add_bb(shapes, meshed) ==
    IF shapes.leaf
    THEN IF shapes.type = "shapes"
         THEN [shapes EXCEPT !.bb = np_bbox(meshed[shapes.ref + 1].vertices,
                                            get_location_not_none(shapes))]
         ELSE IF shapes.type \in {"edges", "vertices"}
         THEN [shapes EXCEPT !.bb = np_bbox(ShapesBox(shapes.shape, 1),
                                            get_location_not_none(shapes))]
         ELSE shapes
    ELSE [shapes EXCEPT !.parts = [i \in 1..Len(shapes.parts) |-> add_bb(shapes.parts[i], meshed)]]

\* ------------------------------------------------------------ combined_bb
\* BoundingBox(): the box a constructor without argument gives, of size
\* zero at the origin
EmptyBox == [min |-> <<0, 0, 0>>, max |-> <<0, 0, 0>>]

\* the value of shape["bb"] after del shape["bb"]: the key is gone
KeyGone == [min |-> <<"del">>, max |-> <<"del">>]

RECURSIVE c_bb(_, _, _)
\* c_bb(shapes, bb), from the i-th part on
c_bb(shapes, i, bb) ==
    IF i > Len(shapes.parts) THEN bb
    ELSE IF shapes.parts[i].leaf
    THEN c_bb(shapes, i + 1,
              IF bb = NoBB
              THEN IF shapes.parts[i].bb = NoBB THEN EmptyBox ELSE shapes.parts[i].bb
              ELSE IF shapes.parts[i].bb # NoBB THEN BoxUnion(bb, shapes.parts[i].bb)
              ELSE bb)
    ELSE c_bb(shapes, i + 1, c_bb(shapes.parts[i], 1, bb))

RECURSIVE DelBB(_)
\* del shape["bb"] for every leaf
DelBB(shapes) ==
    IF shapes.leaf THEN [shapes EXCEPT !.bb = KeyGone]
    ELSE [shapes EXCEPT !.parts = [i \in 1..Len(shapes.parts) |-> DelBB(shapes.parts[i])]]

RECURSIVE BBKeyError(_)
\* shape["bb"] raises KeyError for a leaf of the tree
BBKeyError(shapes) ==
    IF shapes.leaf THEN shapes.bb = KeyGone
    ELSE \E i \in 1..Len(shapes.parts) : BBKeyError(shapes.parts[i])

\* ------------------------------------------------------------ the inputs
Shape(kind, wrapped, label, loc, tshape, dim, elems) ==
    Obj(kind, wrapped, label, NoneName, NoneColor, loc, tshape, dim, elems,
        <<>>, <<>>, <<>>, <<>>)

\* a build123d / cadquery solid
Solid(tshape, loc, label) ==
    Shape("solid", TRUE, label, loc, tshape, 0, <<Sh("solid", tshape, loc)>>)

\* an object with a color attribute
Colored(cad_obj, color) == [cad_obj EXCEPT !.color = color]

\* a TopoDS_Solid of the kernel, without a wrapper
TopoSolid(tshape, loc) ==
    Shape("topods_solid", FALSE, NoneName, loc, tshape, 0, <<Sh("solid", tshape, loc)>>)

Edge(tshape, loc) ==
    Shape("edge", TRUE, "", loc, tshape, 0, <<Sh("edge", tshape, loc)>>)

Vertex(tshape, loc) ==
    Shape("vertex", TRUE, "", loc, tshape, 0, <<Sh("vertex", tshape, loc)>>)

\* a TopoDS_Compound of the kernel, without a wrapper
TopoCompound(tshape, loc, elems) ==
    Shape("topods_compound", FALSE, NoneName, loc, tshape, 0, elems)

\* a build123d compound of the elements elems
Compound(tshape, dim, label, elems) ==
    Shape("compound", TRUE, label, identity_location, tshape, dim, elems)

\* a build123d ShapeList of the elements elems
ShapeList(elems) ==
    Shape("shapelist", FALSE, NoneName, NoneLoc, 0, 0, elems)

Container(kind, label, name, loc, obj, children, keys) ==
    Obj(kind, FALSE, label, name, NoneColor, loc, 0, 0, <<>>, obj, children, keys, <<>>)

CqAssembly(name, loc, obj, children) ==
    Container("cq_assembly", NoneName, name, loc, obj, children, <<>>)

B3dAssembly(label, loc, children) ==
    Container("b3d_assembly", label, NoneName, loc, <<>>, children, <<>>)

List(children) == Container("list", NoneName, NoneName, NoneLoc, <<>>, children, <<>>)

Dict(keys, children) == Container("dict", NoneName, NoneName, NoneLoc, <<>>, children, keys)

Other(kind) == Container(kind, NoneName, NoneName, NoneLoc, <<>>, <<>>, <<>>)

\* a build123d or cadquery Location
Location(loc) == Container("location", NoneName, NoneName, loc, <<>>, <<>>, <<>>)

\* a CAD object built by the caller and passed through
PassThrough(node) ==
    Obj(IF IsGroup(node) THEN "ocp_partgroup" ELSE "ocp_part", FALSE, NoneName, node.name,
        NoneColor, node.loc, 0, 0, <<>>, <<>>, <<>>, <<>>, <<node>>)

LeafAssembly == CqAssembly("leaf", T2, <<Solid(2, T1, "")>>, <<>>)

\* an OCP_Edges the caller has built
EdgesNode(name) ==
    OCP_Inline("edges", <<Sh("edge", 3, T1)>>, name, [c |-> "MediumOrchid", a |-> 100], FALSE)

Inputs ==
    { Other("scalar"), Other("unsupported"), Other("rawloc"),
      Solid(1, T1, "a"), Solid(1, T2, ""), Solid(2, identity_location, "a"),
      Colored(Solid(2, T1, ""), "blue"),
      TopoSolid(1, T1), TopoSolid(1, T2),
      Edge(3, T1),
      Vertex(8, T2),
      Compound(9, 1, "", <<Sh("edge", 3, T1), Sh("edge", 10, T2)>>),
      TopoCompound(11, T1, <<Sh("edge", 3, T1)>>),
      Compound(4, 3, "b", <<Sh("solid", 1, T2)>>),
      Compound(5, 3, "", <<Sh("solid", 1, T1), Sh("solid", 2, T2)>>),
      Compound(6, 0, "", <<Sh("solid", 1, T1), Sh("edge", 3, T2)>>),
      Compound(7, 0, "", <<>>),
      ShapeList(<<>>),
      LeafAssembly,
      CqAssembly("top", T1, <<Solid(1, T2, "")>>,
                 <<CqAssembly("Group", T2, <<Solid(2, T1, "")>>, <<>>)>>),
      Container("cq_massembly", NoneName, "m", T1, <<Solid(1, T2, "")>>, <<>>, <<>>),
      B3dAssembly("asm", T1, <<Solid(1, T2, "a")>>),
      B3dAssembly("", T2, <<Solid(1, T1, "a"), Solid(2, T2, "a")>>),
      List(<<>>),
      List(<<Solid(1, T1, "a"), Solid(1, T2, "a")>>),
      List(<<LeafAssembly>>),
      Location(T1),
      List(<<Location(T2), Solid(2, T2, "")>>),
      Dict(<<"k">>, <<Solid(2, T2, "")>>),
      PassThrough(OCP_PartGroup(<<OCP_Inline("edges", <<Sh("edge", 3, T1)>>, "e",
                                             [c |-> "MediumOrchid", a |-> 100], FALSE)>>,
                                "g", T1)),
      PassThrough(OCP_PartGroup(<<EdgesNode("e"), EdgesNode("e")>>, "h", T2)) }

\* the values of an explicit name, color and alpha
NameValues == {"n"}
ColorValues == {"red"}
AlphaValues == {50}

\* an optional list argument of at most MaxObjs values
ListArgs(values) ==
    {Absent} \cup {Given(l) : l \in UNION {[1..n -> values] : n \in 0..MaxObjs}}

\* --------------------------------------------------------------- the state
VARIABLES
    pc,                 \* where the conversion is: "call", "loop", "built",
                        \* "tess", "done", or "raised" after an exception
    nobjs,              \* len(cad_objs) of the call
    names, colors, alphas,      \* the arguments names, colors and alphas
    l_names, l_colors, l_alphas,\* the lists zip iterates over
    k,                  \* the number of items zip has yielded
    cad_objs,           \* the objects the loop has consumed
    pg,                 \* the part group under construction, then the result
    instances,          \* the shape table: (TShape, shape) pairs
    is_assembly,        \* the local is_assembly of _to_assembly
    err,                \* the exception raised, "" if none
    diag,               \* the number of "Skipping object" messages printed
    meshed_instances,   \* the mesh table of tessellate_group
    shapes,             \* the tree of dicts of tessellate_group
    bb,                 \* what the last combined_bb(shapes) returned
    runs,               \* the number of combined_bb(shapes) calls made
    calls,              \* the number of to_assembly calls made so far
    earlier,            \* the list the caller passed as instances, as it
                        \* was when the call was made
    show_parent,        \* the argument show_parent of to_assembly
    parent,             \* the parent at hand and the topo_parent chain behind
                        \* it; empty for None
    topo,               \* the walk follows topo_parent
    parents,            \* the parents converted so far, the outermost first
    cur                 \* the object whose parents are walked, if any

vars == <<pc, nobjs, names, colors, alphas, l_names, l_colors, l_alphas, k, cad_objs,
          pg, instances, is_assembly, err, diag, meshed_instances, shapes, bb, runs,
          calls, earlier, show_parent, parent, topo, parents, cur>>

\* the state of the walk over the parents of an object
walk == <<show_parent, parent, topo, parents, cur>>

\* the largest number of combined_bb calls on one tree
MaxRuns == 2

\* the largest number of to_assembly calls of a sequence
MaxCalls == 2

args == <<nobjs, names, colors, alphas>>

NoShapes == collect_tasks(OCP_PartGroup(<<>>, "", NoneLoc))

\* to_assembly is about to be called, with show_parent left to its default
\* or set
InitCall ==
    /\ pc = "call"
    /\ nobjs \in 0..MaxObjs
    /\ names \in ListArgs(NameValues)
    /\ colors \in ListArgs(ColorValues)
    /\ alphas \in ListArgs(AlphaValues)
    /\ l_names = <<>>
    /\ l_colors = <<>>
    /\ l_alphas = <<>>
    /\ k = 0
    /\ cad_objs = <<>>
    /\ pg = OCP_PartGroup(<<>>, "", NoneLoc)
    /\ instances = <<>>
    /\ is_assembly = FALSE
    /\ err = ""
    /\ diag = 0
    /\ meshed_instances = <<>>
    /\ shapes = NoShapes
    /\ bb = NoBB
    /\ runs = 0
    /\ calls = 1
    /\ earlier = <<>>
    /\ show_parent \in BOOLEAN
    /\ parent = <<>>
    /\ topo = FALSE
    /\ parents = <<>>
    /\ cur = <<>>

\* show_parent=False, the default
Init == InitCall /\ show_parent = FALSE

\* to_assembly is called: the defaults of _to_assembly, the empty shape
\* table and the empty root group
Enter ==
    /\ pc = "call"
    /\ pc' = "loop"
    /\ l_names' = IF names.given THEN make_unique(names.v) ELSE [i \in 1..nobjs |-> NoneName]
    /\ l_colors' = IF colors.given THEN colors.v ELSE [i \in 1..nobjs |-> NoneColor]
    /\ l_alphas' = IF alphas.given THEN alphas.v ELSE [i \in 1..nobjs |-> NoneAlpha]
    /\ pg' = OCP_PartGroup(<<>>, "Group", identity_location)
    /\ UNCHANGED <<args, k, cad_objs, instances, is_assembly, err, diag, meshed_instances,
                   shapes, bb, runs, calls, earlier, walk>>

\* one iteration of the loop of the outermost _to_assembly; the object is
\* read when zip yields it
LoopBody(cad_obj) ==
    /\ pc = "loop"
    /\ k < ZipLen(names, colors, alphas, nobjs)
    /\ LET st == ProcessObj([pg |-> pg, instances |-> instances,
                             is_assembly |-> is_assembly, err |-> "", diag |-> diag],
                            l_names[k + 1], l_colors[k + 1], l_alphas[k + 1], cad_obj)
       IN  /\ pg' = st.pg
           /\ instances' = st.instances
           /\ is_assembly' = st.is_assembly
           /\ err' = st.err
           /\ diag' = st.diag
           /\ pc' = IF st.err # "" THEN "raised" ELSE "loop"
    /\ k' = k + 1
    /\ cad_objs' = Append(cad_objs, cad_obj)
    /\ UNCHANGED <<args, l_names, l_colors, l_alphas, meshed_instances, shapes, bb, runs, calls, earlier, walk>>

\* the loop is exhausted: the children of pg get unique names, _to_assembly
\* returns and to_assembly replaces pg by its only group
Return ==
    /\ pc = "loop"
    /\ k = ZipLen(names, colors, alphas, nobjs)
    /\ pg' = TopFlatten(Uniq(pg))
    /\ pc' = "built"
    /\ UNCHANGED <<args, l_names, l_colors, l_alphas, k, cad_objs, instances, is_assembly,
                   err, diag, meshed_instances, shapes, bb, runs, calls, earlier, walk>>

\* tessellate_group(group, instances) is called: collect_tasks, and an
\* empty mesh table
TessStart ==
    /\ pc = "built"
    /\ pc' = "tess"
    /\ shapes' = collect_tasks(pg)
    /\ meshed_instances' = <<>>
    /\ UNCHANGED <<args, l_names, l_colors, l_alphas, k, cad_objs, pg, instances,
                   is_assembly, err, diag, bb, runs, calls, earlier, walk>>

\* TessInstance that meshes the first entry in every iteration (instances[0]
\* for instance)
TessInstanceFirst ==
    /\ pc = "tess"
    /\ Len(meshed_instances) < Len(instances)
    /\ meshed_instances' = Append(meshed_instances, tessellate(instances[1].shape))
    /\ UNCHANGED <<pc, args, l_names, l_colors, l_alphas, k, cad_objs, pg, instances,
                   is_assembly, err, diag, shapes, bb, runs, calls, earlier, walk>>

\* TessInstance that meshes the shape at the origin and leaves it there
\* (shape.Move(...) on the stored shape for a copy)
TessInstanceInPlace ==
    /\ pc = "tess"
    /\ Len(meshed_instances) < Len(instances)
    /\ meshed_instances' = Append(meshed_instances,
                                  tessellate(instances[Len(meshed_instances) + 1].shape))
    /\ instances' = [instances EXCEPT ![Len(meshed_instances) + 1].shape.loc =
                                          identity_location]
    /\ UNCHANGED <<pc, args, l_names, l_colors, l_alphas, k, cad_objs, pg,
                   is_assembly, err, diag, shapes, bb, runs, calls, earlier, walk>>

\* one iteration of the loop over the shape table: the mesh is appended
TessInstance ==
    /\ pc = "tess"
    /\ Len(meshed_instances) < Len(instances)
    /\ meshed_instances' = Append(meshed_instances,
                                  tessellate(instances[Len(meshed_instances) + 1].shape))
    /\ UNCHANGED <<pc, args, l_names, l_colors, l_alphas, k, cad_objs, pg, instances,
                   is_assembly, err, diag, shapes, bb, runs, calls, earlier, walk>>

\* the mesh generator raises for the entry at hand: tessellate_group does
\* not catch it
TessRaise ==
    /\ pc = "tess"
    /\ Len(meshed_instances) < Len(instances)
    /\ pc' = "raised"
    /\ err' = "MeshError"
    /\ UNCHANGED <<args, l_names, l_colors, l_alphas, k, cad_objs, pg, instances,
                   is_assembly, diag, meshed_instances, shapes, bb, runs, calls, earlier, walk>>

\* TessFinish that does not wait for the end of the loop: the box pass
\* starts when some meshes are missing, and fails at the first missing one
TessFinishEarly ==
    /\ pc = "tess"
    /\ Len(meshed_instances) <= Len(instances)
    /\ IF AddBBRaises(shapes) \/ Len(meshed_instances) < Len(instances)
       THEN pc' = "raised" /\ err' = "TypeError" /\ shapes' = shapes
       ELSE pc' = "done" /\ err' = err /\ shapes' = add_bb(shapes, meshed_instances)
    /\ UNCHANGED <<args, l_names, l_colors, l_alphas, k, cad_objs, pg, instances,
                   is_assembly, diag, meshed_instances, bb, runs, calls, earlier, walk>>

\* after the loop: add_bb and discretize_edges_vertices, then the return
TessFinish ==
    /\ pc = "tess"
    /\ Len(meshed_instances) = Len(instances)
    /\ IF AddBBRaises(shapes)
       THEN pc' = "raised" /\ err' = "TypeError" /\ shapes' = shapes
       ELSE pc' = "done" /\ err' = err /\ shapes' = add_bb(shapes, meshed_instances)
    /\ UNCHANGED <<args, l_names, l_colors, l_alphas, k, cad_objs, pg, instances,
                   is_assembly, diag, meshed_instances, bb, runs, calls, earlier, walk>>

\* combined_bb(shapes), called on the tree tessellate_group returned: the
\* union of the boxes of the leaves; the key "bb" of every leaf is deleted
CombinedBB ==
    /\ pc = "done"
    /\ runs < MaxRuns
    /\ runs' = runs + 1
    /\ IF BBKeyError(shapes)
       THEN pc' = "raised" /\ err' = "KeyError" /\ bb' = bb /\ shapes' = shapes
       ELSE pc' = pc /\ err' = err /\ bb' = c_bb(shapes, 1, NoBB) /\ shapes' = DelBB(shapes)
    /\ UNCHANGED <<args, l_names, l_colors, l_alphas, k, cad_objs, pg, instances,
                   is_assembly, diag, meshed_instances, calls, earlier, walk>>

\* PassedTable with a list that outlives the call when the caller passes
\* none (a default instances=[] for instances=None)
PassedTableShared(supplied, table) == table

\* instances of _to_assembly: the list the caller passes, a new list when
\* the caller passes none
PassedTable(supplied, table) == IF supplied THEN table ELSE <<>>

\* to_assembly has returned (and tessellate_group too, or not) and the
\* caller makes the next call of the sequence, with objects only, and with
\* the instances list of the call before or without one
NewCall(supplied) ==
    /\ pc \in {"built", "done"}
    /\ calls < MaxCalls
    /\ calls' = calls + 1
    /\ pc' = "call"
    /\ nobjs' \in 0..MaxObjs
    /\ names' = Absent
    /\ colors' = Absent
    /\ alphas' = Absent
    /\ earlier' = IF supplied THEN instances ELSE <<>>
    /\ instances' = PassedTable(supplied, instances)
    /\ l_names' = <<>>
    /\ l_colors' = <<>>
    /\ l_alphas' = <<>>
    /\ k' = 0
    /\ cad_objs' = <<>>
    /\ pg' = OCP_PartGroup(<<>>, "", NoneLoc)
    /\ is_assembly' = FALSE
    /\ err' = ""
    /\ diag' = 0
    /\ meshed_instances' = <<>>
    /\ shapes' = NoShapes
    /\ bb' = NoBB
    /\ runs' = 0
    /\ UNCHANGED walk

Next ==
    \/ Enter
    \/ \E cad_obj \in Inputs : LoopBody(cad_obj)
    \/ Return
    \/ TessStart
    \/ TessInstance
    \/ TessRaise
    \/ TessFinish
    \/ CombinedBB
    \/ \E supplied \in BOOLEAN : NewCall(supplied)

Spec == Init /\ [][Next]_vars

\* ------------------------------------------------ the walk over the parents
\* the longest chain of topo_parent attributes
MaxParents == 2

\* a chain of MaxParents parents: the solid a shape was taken from, the
\* compound that solid was taken from, and so on
TopChain ==
    [i \in 1..MaxParents |->
        IF i % 2 = 1 THEN Solid(1, T1, "a")
        ELSE Compound(5, 3, "", <<Sh("solid", 1, T1), Sh("solid", 2, T2)>>)]

\* cad_obj.parent or cad_obj.topo_parent, and the topo_parent of that one,
\* up to the object that has None: the chains of 0..MaxParents parents
Chains == {SubSeq(TopChain, i, MaxParents) : i \in 1..(MaxParents + 1)}

\* the kinds a branch before the default branch takes
BranchKinds ==
    {"scalar", "unsupported", "cq_assembly", "cq_massembly", "b3d_assembly", "list", "dict",
     "location", "ocp_partgroup", "ocp_part", "compound", "compound_ni", "topods_solid"}

\* the object reaches the default branch of a call with show_parent set
WalksParents(cad_obj) == show_parent /\ cad_obj.kind \notin BranchKinds

\* an iteration of the loop that does not look for parents
LiveBody(cad_obj) == ~WalksParents(cad_obj) /\ LoopBody(cad_obj)

\* the default branch with show_parent: parent is read from cad_obj.parent
\* (topo = False) or from a topo_parent attribute (topo = True)
ParentStart(cad_obj, chain, t) ==
    /\ pc = "loop"
    /\ k < ZipLen(names, colors, alphas, nobjs)
    /\ WalksParents(cad_obj)
    /\ pc' = "parents"
    /\ cur' = <<cad_obj>>
    /\ parent' = chain
    /\ topo' = t
    /\ parents' = <<>>
    /\ UNCHANGED <<args, l_names, l_colors, l_alphas, k, cad_objs, pg, instances,
                   is_assembly, err, diag, meshed_instances, shapes, bb, runs, calls,
                   earlier, show_parent>>

\* pname = "parent" if ind == 0 else f"parent({ind})", ind = 0, -1, ...
pname(n) == IF n = 0 THEN "parent" ELSE "parent(-" \o ToString(n) \o ")"

\* ParentStep that neither keeps the parent converted nor moves on to the
\* next one
ParentStepStuck ==
    /\ pc = "parents"
    /\ parent # <<>>
    /\ UNCHANGED vars

\* one iteration of while parent is not None: the parent is converted and
\* put first, and parent becomes its topo_parent, or None
ParentStep ==
    /\ pc = "parents"
    /\ parent # <<>>
    /\ LET c == conv(Head(parent), pname(Len(parents)), NoneColor, NoneAlpha)
       IN  IF c.err # ""
           THEN pc' = "raised" /\ err' = c.err /\ parents' = parents /\ parent' = parent
           ELSE /\ pc' = pc
                /\ err' = err
                /\ parents' = <<c.part>> \o parents
                /\ parent' = IF topo THEN Tail(parent) ELSE <<>>
    /\ UNCHANGED <<args, l_names, l_colors, l_alphas, k, cad_objs, pg, instances,
                   is_assembly, diag, meshed_instances, shapes, bb, runs, calls,
                   earlier, show_parent, topo, cur>>

\* the end of an iteration of the loop that has built st for cad_obj
Iterated(st, cad_obj) ==
    /\ pg' = st.pg
    /\ instances' = st.instances
    /\ is_assembly' = st.is_assembly
    /\ err' = st.err
    /\ diag' = st.diag
    /\ pc' = IF st.err # "" THEN "raised" ELSE "loop"
    /\ k' = k + 1
    /\ cad_objs' = Append(cad_objs, cad_obj)

\* parent is None: the parents are added to pg, then the part of the object
ParentEnd ==
    /\ pc = "parents"
    /\ parent = <<>>
    /\ Iterated(ProcessObj([pg |-> [pg EXCEPT !.objects = @ \o parents],
                            instances |-> instances, is_assembly |-> is_assembly,
                            err |-> "", diag |-> diag],
                           l_names[k + 1], l_colors[k + 1], l_alphas[k + 1], cur[1]),
                cur[1])
    /\ cur' = <<>>
    /\ UNCHANGED <<args, l_names, l_colors, l_alphas, meshed_instances, shapes, bb, runs,
                   calls, earlier, show_parent, parent, topo, parents>>

\* one call of to_assembly, step by step
NextLive ==
    \/ Enter
    \/ \E cad_obj \in Inputs : LiveBody(cad_obj)
    \/ \E cad_obj \in Inputs, chain \in Chains, t \in BOOLEAN : ParentStart(cad_obj, chain, t)
    \/ ParentStep
    \/ ParentEnd
    \/ Return

\* a call with objects and names, with show_parent or without
InitLive == InitCall /\ colors = Absent /\ alphas = Absent

\* the interpreter runs the call as long as it has a next statement
SpecLive == InitLive /\ [][NextLive]_vars /\ WF_vars(NextLive)

\* ------------------------------------------------------- trees, as values
RECURSIVE GroupsOf(_)
\* the group nodes of a tree, the root included
GroupsOf(node) ==
    IF IsGroup(node)
    THEN {node} \cup UNION {GroupsOf(node.objects[i]) : i \in 1..Len(node.objects)}
    ELSE {}

RECURSIVE LeafSeq(_, _)
\* the leaves of the subtrees k.. of a node, in order
LeafSeq(node, i) ==
    IF ~IsGroup(node) THEN <<node>>
    ELSE IF i > Len(node.objects) THEN <<>>
    ELSE LeafSeq(node.objects[i], 1) \o LeafSeq(node, i + 1)

Leaves(node) == LeafSeq(node, 1)

RefLeaves(node) == SelectSeq(Leaves(node), LAMBDA n : n.ref # NoneRef)

NoDupKeys(table) ==
    \A i, j \in 1..Len(table) : table[i].key = table[j].key => i = j

IsPrefix(s, t) == Len(s) <= Len(t) /\ SubSeq(t, 1, Len(s)) = s

\* the objects _to_assembly hands to get_instance for the inputs
InstanceInputs ==
    {o \in Inputs : o.kind \in {"solid", "topods_solid"}}
    \cup {SolidOf(o.elems[1]) : o \in {c \in Inputs : c.kind = "compound" /\ c.dim = 3
                                                      /\ Len(c.elems) = 1}}
    \cup {o.obj[1] : o \in {c \in Inputs : c.kind = "cq_assembly" /\ Len(c.obj) = 1}}

DefaultRgba == get_rgba(NoneColor, NoneAlpha, default_color)

\* the topology identities of the shapes a shape node shows
TopoIds(node, table) ==
    IF node.ref # NoneRef THEN {table[node.ref + 1].key}
    ELSE {node.shape[i].tshape : i \in 1..Len(node.shape)}

\* ------------------------------------------------------------------ claims

SolidKinds == {"solid", "topods_solid"}

\* C2 (as stated): two input solids of identical topology and different
\* poses yield two shape nodes that reference instance 0, the first with the
\* pose of the first solid and the second with the pose of the second, and a
\* shape table of length 1.
C2_TwoPoses ==
    (/\ pc = "built"
     /\ Len(cad_objs) = 2
     /\ cad_objs[1].kind \in SolidKinds
     /\ cad_objs[2].kind \in SolidKinds
     /\ cad_objs[1].tshape = cad_objs[2].tshape
     /\ cad_objs[1].loc # cad_objs[2].loc)
    => /\ Len(pg.objects) = 2
       /\ Len(instances) = 1
       /\ pg.objects[1].ref = 0
       /\ pg.objects[2].ref = 0
       /\ pg.objects[1].loc = cad_objs[1].loc
       /\ pg.objects[2].loc = cad_objs[2].loc

\* C3: a get_instance call, from any shape table the loop of _to_assembly
\* reaches and for any shape, returns the table unchanged (hit) or with
\* exactly one entry appended (miss); the entries already there keep their
\* place and value.
C3_GetInstanceFrame ==
    pc = "loop" =>
        \A o \in InstanceInputs :
            LET r == get_instance(o, NoneName, DefaultRgba, instances)
            IN  \/ r.instances = instances
                \/ /\ Len(r.instances) = Len(instances) + 1
                   /\ IsPrefix(instances, r.instances)

\* a table from which one shape hits and another misses
C3_Witness ==
    /\ pc = "loop"
    /\ Len(instances) >= 1
    /\ \E o \in InstanceInputs :
          get_instance(o, NoneName, DefaultRgba, instances).instances = instances
    /\ \E o \in InstanceInputs :
          Len(get_instance(o, NoneName, DefaultRgba, instances).instances) = Len(instances) + 1

C5_OneMeshPerEntry ==
    /\ pc \in {"call", "loop", "built"} => meshed_instances = <<>>
    /\ Len(meshed_instances) <= Len(instances)
    /\ \A i \in 1..Len(meshed_instances) : meshed_instances[i] = tessellate(instances[i].shape)
    /\ pc = "done" => Len(meshed_instances) = Len(instances)

\* tessellate_group has returned for a table of two entries
C5_Witness ==
    /\ pc = "done"
    /\ Len(instances) = 2
    /\ Len(meshed_instances) = 2

\* C6 (as stated): in the tree to_assembly returns, the names of the
\* immediate children of every group node are pairwise distinct.
C6_SiblingNamesDistinct ==
    pc = "built" =>
        \A g \in GroupsOf(pg) :
            \A i, j \in 1..Len(g.objects) :
                g.objects[i].name = g.objects[j].name => i = j

ContainerKinds == {"cq_assembly", "cq_massembly", "b3d_assembly", "list", "dict",
                   "ocp_partgroup"}

\* the groups below the root of a tree
InnerGroups(root) == UNION {GroupsOf(root.objects[i]) : i \in 1..Len(root.objects)}

\* C7 (as stated): when the inputs of to_assembly hold a container, no group
\* below the root of the tree returned has exactly one child.
C7_NoSingleChildGroup ==
    (/\ pc = "built"
     /\ \E i \in 1..Len(cad_objs) : cad_objs[i].kind \in ContainerKinds)
    => \A g \in InnerGroups(pg) : Len(g.objects) # 1

\* parent.transform composed with child.transform (an absent one is neutral)
Composed(outer, child) ==
    IF child = NoneLoc THEN outer
    ELSE IF outer = NoneLoc THEN child
    ELSE Mul(outer, child)

\* the name (6.5) passes for the i-th element of a list or dict
ElementName(cad_obj, i, obj_name) ==
    LET child == cad_obj.children[i]
    IN  IF child.name # NoneName THEN child.name
        ELSE IF child.label # NoneName /\ child.label # "" THEN child.label
        ELSE IF cad_obj.kind # "dict" THEN obj_name
        ELSE cad_obj.keys[i]

\* what the recursive call returns for the i-th element of a container, as
\* the iteration at hand of the outermost loop makes it
ElementPart(cad_obj, i) ==
    IF cad_obj.kind = "b3d_assembly"
    THEN InnerToAssembly(<<cad_obj.children[i]>>, Absent, Given(<<l_colors[k + 1]>>),
                         Given(<<l_alphas[k + 1]>>), instances, TRUE).pg
    ELSE InnerToAssembly(<<cad_obj.children[i]>>,
                         Given(<<ElementName(cad_obj, i, l_names[k + 1])>>),
                         Given(<<l_colors[k + 1]>>), Given(<<l_alphas[k + 1]>>),
                         instances, is_assembly).pg

\* the node the iteration has put in the tree for the i-th element
ElementNode(cad_obj, i, tree) ==
    LET last == tree.objects[Len(tree.objects)]
    IN  IF cad_obj.kind # "b3d_assembly" /\ Len(cad_obj.children) = 1 THEN last
        ELSE last.objects[i]

\* C8 (as stated): wherever a group with a single child is replaced by its
\* child (the elements of a build123d assembly, of a list or of a dict, and
\* the last step of to_assembly), the transform of the child becomes the
\* transform of the group composed with the transform of the child.
C8_FlattenComposes ==
    [][/\ \A o \in Inputs :
             (/\ LoopBody(o)
              /\ o.kind \in {"b3d_assembly", "list", "dict"}
              /\ err' = ""
              /\ \A i \in 1..Len(o.children) : Len(ElementPart(o, i).objects) = 1)
             => \A i \in 1..Len(o.children) :
                    ElementNode(o, i, pg').loc
                        = Composed(ElementPart(o, i).loc, ElementPart(o, i).objects[1].loc)
       /\ (Return /\ Len(pg.objects) = 1 /\ IsGroup(pg.objects[1]))
             => pg'.loc = Composed(pg.loc, pg.objects[1].loc)]_vars

\* names, colors or alphas is given with a length that is not the number of
\* objects
LengthMismatch ==
    \/ names.given /\ Len(names.v) # nobjs
    \/ colors.given /\ Len(colors.v) # nobjs
    \/ alphas.given /\ Len(alphas.v) # nobjs

\* C9 (as stated): with names, colors or alphas of a length that is not the
\* number of objects, the build fails with LengthMismatch before a node is
\* created and before tessellation runs: it creates no node, meshes nothing
\* and never returns a tree.
C9_LengthMismatch ==
    LengthMismatch =>
        /\ pc \notin {"built", "tess", "done"}
        /\ pg.objects = <<>>
        /\ meshed_instances = <<>>
        /\ pc = "raised" => err = "LengthMismatch"

\* an object whose type matches no branch of the dispatch
IsUnsupported(cad_obj) == cad_obj.kind \in {"unsupported", "rawloc"}

NumUnsupported == Cardinality({i \in 1..Len(cad_objs) : IsUnsupported(cad_objs[i])})

\* strict mode: an element of an unsupported type aborts the build
StrictRun ==
    \A i \in 1..Len(cad_objs) :
        IsUnsupported(cad_objs[i]) => i = Len(cad_objs) /\ pc = "raised"

\* permissive mode: every element of an unsupported type is skipped with a
\* diagnostic and the build goes on
PermissiveRun ==
    /\ diag = NumUnsupported
    /\ \A i \in 1..Len(cad_objs) :
          IsUnsupported(cad_objs[i]) /\ i = Len(cad_objs) => pc # "raised"

\* C10 (as stated): a build runs in one of two modes: in strict mode an
\* element of an unsupported type aborts it, in permissive mode such an
\* element is skipped with a recorded diagnostic and its siblings are still
\* processed.
C10_UnsupportedMode ==
    pc \in {"loop", "raised", "built"} => StrictRun \/ PermissiveRun

\* an input that decomposes to zero usable shapes
IsEmptyInput(cad_obj) ==
    \/ cad_obj.kind \in {"list", "dict"} /\ Len(cad_obj.children) = 0
    \/ cad_obj.kind \in {"compound", "shapelist"} /\ Len(cad_obj.elems) = 0

\* the zero-size placeholder of conv: a single vertex at the origin, named
\* "... (empty)"
IsPlaceholder(node) ==
    /\ node.empty
    /\ node.type = "vertices"
    /\ node.shape = <<Sh("vertex", 0, identity_location)>>

\* C11 (as stated): an input element that decomposes to zero usable shapes
\* (the empty list included) does not abort the build and is replaced in the
\* tree by a zero-size placeholder node: the iteration fails with no
\* exception, keeps the nodes of the elements before it and adds one
\* placeholder after them.
C11_EmptyPlaceholder ==
    [][\A o \in Inputs :
           (LoopBody(o) /\ IsEmptyInput(o)) =>
               /\ err' = ""
               /\ Len(pg'.objects) = Len(pg.objects) + 1
               /\ SubSeq(pg'.objects, 1, Len(pg.objects)) = pg.objects
               /\ IsPlaceholder(pg'.objects[Len(pg'.objects)])]_vars

\* the default color of the kind of a shape node
KindColor(node) ==
    CASE node.type = "part" -> default_color
      [] node.type = "faces" -> FACE_COLOR
      [] node.type = "edges" -> THICK_EDGE_COLOR
      [] node.type = "vertices" -> VERTEX_COLOR
      [] OTHER -> NoneColor

\* the color the resolution rule gives a node: the per-call color, else the
\* color of the object, else the default of the kind
ResolvedColor(call_color, cad_obj, node) ==
    IF call_color # NoneColor THEN call_color
    ELSE IF cad_obj.color # NoneColor THEN cad_obj.color
    ELSE KindColor(node)

\* the inputs that become one shape node
ShapeInputs == {o \in Inputs : o.kind \in ShapeKinds /\ ~is_mixed_compound(o)}

\* C12 (as stated): the color of a shape node is the explicit per-call
\* color when one is supplied, else the color attached to the input object,
\* else the default of the node's kind; an object-attached color never
\* overrides an explicit per-call color.
C12_ColorResolution ==
    [][\A o \in ShapeInputs :
           (LoopBody(o) /\ err' = "") =>
               LET node == pg'.objects[Len(pg'.objects)]
               IN  node.rgba.c = ResolvedColor(l_colors[k + 1], o, node)]_vars

\* the name of the kind of a shape node, in the singular for one shape and
\* in the plural for more
KindName(node, n) ==
    CASE node.type = "part" -> IF n > 1 THEN "Solids" ELSE "Solid"
      [] node.type = "faces" -> IF n > 1 THEN "Faces" ELSE "Face"
      [] node.type = "edges" -> IF n > 1 THEN "Edges" ELSE "Edge"
      [] node.type = "vertices" -> IF n > 1 THEN "Vertices" ELSE "Vertex"
      [] OTHER -> "Part"

\* the name the naming rule gives the node of an object
RuleName(call_name, cad_obj, node) ==
    IF call_name # NoneName THEN call_name
    ELSE IF cad_obj.label # NoneName /\ cad_obj.label # "" THEN cad_obj.label
    ELSE IF cad_obj.name # NoneName /\ cad_obj.name # "" THEN cad_obj.name
    ELSE KindName(node, Len(cad_obj.elems))

\* C13 (as stated): the name of a node, before the uniqueness suffix, is
\* the explicit name when one is supplied, else the label or name attached
\* to the input when it is non-empty, else the kind name, in the singular
\* for one shape and in the plural for more than one.
C13_Naming ==
    [][\A o \in ShapeInputs :
           (LoopBody(o) /\ err' = "" /\ Len(o.elems) > 0) =>
               LET node == pg'.objects[Len(pg'.objects)]
               IN  node.name = RuleName(l_names[k + 1], o, node)]_vars

\* C14 (as stated): every group node of a tree the builder returns has a
\* transform that is not absent, and the build never ends an iteration by
\* repairing an absent transform: it aborts instead.
C14_GroupTransform ==
    pc = "built" => \A g \in GroupsOf(pg) : g.loc # NoneLoc

RECURSIVE GroupDicts(_)
\* the dicts of the groups of a tree of dicts, the root included
GroupDicts(tree) ==
    IF tree.leaf THEN {}
    ELSE {tree} \cup UNION {GroupDicts(tree.parts[i]) : i \in 1..Len(tree.parts)}

\* box b contains box c
Contains(b, c) == \A i \in 1..3 : b.min[i] <= c.min[i] /\ c.max[i] <= b.max[i]

\* the box of a child of a group: the "bb" of a leaf, what combined_bb
\* computes for a group
ChildBox(child) == IF child.leaf THEN child.bb ELSE c_bb(child, 1, NoBB)

\* C15 (as stated): for every group whose computed bounding box is not
\* empty, the box contains the box of every child that has one.
C15_BoxContainsChildren ==
    (pc = "done" /\ runs = 0) =>
        \A g \in GroupDicts(shapes) :
            c_bb(g, 1, NoBB) # NoBB =>
                \A i \in 1..Len(g.parts) :
                    ChildBox(g.parts[i]) # NoBB
                        => Contains(c_bb(g, 1, NoBB), ChildBox(g.parts[i]))

RECURSIVE PresentUnion(_, _)
\* the union of the boxes of the parts i.. of a group that have one; None
\* when none has
PresentUnion(tree, i) ==
    IF i > Len(tree.parts) THEN NoBB
    ELSE BoxUnion(IF tree.parts[i].leaf THEN tree.parts[i].bb
                  ELSE PresentUnion(tree.parts[i], 1),
                  PresentUnion(tree, i + 1))

\* the tree of dicts tessellate_group has returned for pg
Boxed == add_bb(collect_tasks(pg), meshed_instances)

\* C16 (as stated): the box combined_bb returns for a group is exactly the
\* union of the boxes of its children that have one; a child without a box
\* contributes nothing and a group without a boxed child yields None.
C16_ExactUnion ==
    (pc = "done" /\ runs = 1) => bb = PresentUnion(Boxed, 1)

\* C17 (as stated): a second run of combined_bb on the same tree succeeds
\* and returns the box the first run returned.
C17_Idempotent ==
    [][(CombinedBB /\ runs = 1) => (pc' = "done" /\ bb' = bb)]_vars

\* C18 (as stated): when the mesh generator fails for an entry of the shape
\* table, the scheduler does not abort: the failed entry takes its own index
\* in the mesh table and the loop goes on with the entries after it.
C18_MeshFailureRecorded ==
    [][TessRaise =>
           /\ pc' = "tess"
           /\ err' = ""
           /\ Len(meshed_instances') = Len(meshed_instances) + 1]_vars

\* C19: in a sequence of to_assembly calls, a call that is passed the
\* instances list of the call before keeps every entry of that list at its
\* index and resolves a shape whose key is in the list to the index it has
\* there, without a new entry; a call that is passed no list starts from an
\* empty shape table and from the state a first call starts from.
C19_CacheAcrossCalls ==
    /\ IsPrefix(earlier, instances)
    /\ pc = "loop" =>
          \A o \in InstanceInputs :
              FindInstance(earlier, relocate(o).obj.tshape) > 0 =>
                  /\ get_instance(o, NoneName, DefaultRgba, instances).part.ref
                         = FindInstance(earlier, relocate(o).obj.tshape) - 1
                  /\ get_instance(o, NoneName, DefaultRgba, instances).instances = instances
    /\ (pc = "call" /\ earlier = <<>>) =>
          /\ instances = <<>>
          /\ pg = OCP_PartGroup(<<>>, "", NoneLoc)
          /\ <<l_names, l_colors, l_alphas, k, cad_objs>> = <<<<>>, <<>>, <<>>, 0, <<>>>>
          /\ <<is_assembly, err, diag>> = <<FALSE, "", 0>>

\* the second call of a sequence was passed the table of the first, has
\* resolved a shape to an entry of the first call and has added an entry
C19_Witness ==
    /\ calls = 2
    /\ pc = "loop"
    /\ earlier # <<>>
    /\ Len(instances) > Len(earlier)
    /\ \E i \in 1..Len(RefLeaves(pg)) : RefLeaves(pg)[i].ref < Len(earlier)

\* the objects that are added to the tree as they are
PassKinds == {"ocp_partgroup", "ocp_part"}

\* the object of the caller that stands for the i-th input in the tree the
\* call returns, when every input was passed through
PassedNode(tree, i, objs) ==
    IF Len(objs) = 1 /\ objs[1].kind = "ocp_partgroup" THEN tree
    ELSE tree.objects[i]

\* C20 (as stated): a build call changes nothing but the instance cache: an
\* object that is passed through is, once added to the tree and when the
\* call returns, as the caller passed it: same name, same children with the
\* same names, same attributes.
C20_InputsUnchanged ==
    [][/\ \A o \in Inputs :
             (LoopBody(o) /\ o.kind \in PassKinds)
                 => pg'.objects[Len(pg'.objects)] = o.node[1]
       /\ (Return /\ \A i \in 1..Len(cad_objs) : cad_objs[i].kind \in PassKinds)
             => \A i \in 1..Len(cad_objs) :
                    PassedNode(pg', i, cad_objs) = cad_objs[i].node[1]]_vars

\* the inputs that are mixed compounds
MixedInputs == {o \in Inputs : o.kind \in {"compound", "compound_ni"} /\ is_mixed_compound(o)}

\* C21 (as stated): for a mixed compound every element yields one sibling
\* node, in element order and not merged, and the node of a solid or face
\* element is resolved through the instance cache, as the node of that
\* element is when it is passed on its own: it carries an instance_ref that
\* designates the entry with the topology key of the element.
C21_MixedReenters ==
    [][\A o \in MixedInputs :
           LoopBody(o) =>
               /\ err' = ""
               /\ Len(pg'.objects) = Len(pg.objects) + Len(o.elems)
               /\ SubSeq(pg'.objects, 1, Len(pg.objects)) = pg.objects
               /\ \A i \in 1..Len(o.elems) :
                      LET node == pg'.objects[Len(pg.objects) + i]
                      IN  /\ TopoIds(node, instances') = {o.elems[i].tshape}
                          /\ o.elems[i].dim \in {"solid", "face"} =>
                                 /\ node.ref # NoneRef
                                 /\ node.ref < Len(instances')
                                 /\ instances'[node.ref + 1].key = o.elems[i].tshape]_vars

\* the inputs that consist of edges only or of vertices only
CurveInputs ==
    {o \in Inputs : /\ o.kind \in ShapeKinds
                    /\ Len(o.elems) > 0
                    /\ AllDim(o.elems, "edge") \/ AllDim(o.elems, "vertex")}

\* C22 (as stated): an input of edges only or of vertices only yields a node
\* that owns its geometry inline, and processing it leaves the shape table
\* unchanged, whichever dispatch branch it reaches.
C22_CurvesInline ==
    [][\A o \in CurveInputs :
           LoopBody(o) =>
               /\ err' = ""
               /\ instances' = instances
               /\ Len(pg'.objects) = Len(pg.objects) + 1
               /\ LET node == pg'.objects[Len(pg'.objects)]
                  IN  /\ node.ref = NoneRef
                      /\ node.type = IF AllDim(o.elems, "edge") THEN "edges" ELSE "vertices"
                      /\ node.shape = o.elems]_vars

\* the positions of the objects consumed that are no scalars
Geometric == SelectSeq([i \in 1..Len(cad_objs) |-> i], LAMBDA i : cad_objs[i].kind # "scalar")

\* the loop of _to_assembly run from the state the call began with, over the
\* objects consumed that are no scalars, each with the name, color and alpha
\* it has in the call
WithoutScalars ==
    to_assembly_loop([pg |-> OCP_PartGroup(<<>>, "Group", identity_location),
                      instances |-> earlier, is_assembly |-> FALSE, err |-> "", diag |-> 0],
                     1,
                     [j \in 1..Len(Geometric) |-> l_names[Geometric[j]]],
                     [j \in 1..Len(Geometric) |-> l_colors[Geometric[j]]],
                     [j \in 1..Len(Geometric) |-> l_alphas[Geometric[j]]],
                     [j \in 1..Len(Geometric) |-> cad_objs[Geometric[j]]])

\* the state of the loop, as a record
LoopState ==
    [pg |-> pg, instances |-> instances, is_assembly |-> is_assembly, err |-> err,
     diag |-> diag]

FirstId(node, table) ==
    IF node.ref # NoneRef THEN table[node.ref + 1].shape.tshape
    ELSE IF Len(node.shape) > 0 THEN node.shape[1].tshape
    ELSE -1

RECURSIVE InputIds(_)
RECURSIVE ChildIds(_, _)
\* the identities of the first shapes of the leaves an input stands for, in
\* the order of the input: the shape of an assembly before its children, the
\* elements of a container and of a mixed compound one after the other
InputIds(o) ==
    IF o.kind \in {"scalar", "unsupported", "rawloc"} THEN <<>>
    ELSE IF o.kind \in {"cq_assembly", "cq_massembly"}
    THEN (IF Len(o.obj) = 0 THEN <<>> ELSE InputIds(o.obj[1])) \o ChildIds(o.children, 1)
    ELSE IF o.kind \in {"b3d_assembly", "list", "dict"} THEN ChildIds(o.children, 1)
    ELSE IF o.kind = "location" THEN <<-1>>
    ELSE IF o.kind \in PassKinds
    THEN [i \in 1..Len(Leaves(o.node[1])) |-> FirstId(Leaves(o.node[1])[i], <<>>)]
    ELSE IF is_mixed_compound(o) THEN [i \in 1..Len(o.elems) |-> o.elems[i].tshape]
    ELSE IF Len(o.elems) = 0 THEN <<0>>
    ELSE <<o.elems[1].tshape>>

ChildIds(objs, i) ==
    IF i > Len(objs) THEN <<>> ELSE InputIds(objs[i]) \o ChildIds(objs, i + 1)

RECURSIVE NodeNames(_)
\* the names of a tree of nodes, nested as its groups are
NodeNames(node) ==
    [name |-> node.name,
     parts |-> [i \in 1..Len(node.objects) |-> NodeNames(node.objects[i])]]

RECURSIVE DictNames(_)
\* the names of a tree of dicts, nested as its "parts" are
DictNames(tree) ==
    [name |-> tree.name,
     parts |-> [i \in 1..Len(tree.parts) |-> DictNames(tree.parts[i])]]

\* C24: the leaves of the tree are in the order of the inputs and container
\* elements that produced them, during the build and in the tree returned;
\* tessellate_group and combined_bb leave the tree as it is, and the tree of
\* dicts they work on has the nodes of the tree, in their order.
C24_ChildrenOrder ==
    /\ pc \in {"loop", "built", "tess", "done"} =>
           [i \in 1..Len(Leaves(pg)) |-> FirstId(Leaves(pg)[i], instances)]
               = ChildIds(cad_objs, 1)
    /\ pc \in {"tess", "done"} => DictNames(shapes) = NodeNames(pg)

\* tessellate_group and combined_bb have run on a tree of two groups with
\* two leaves each
C24_Witness ==
    /\ pc = "done"
    /\ runs = 1
    /\ Len(pg.objects) = 2
    /\ \A i \in 1..2 : IsGroup(pg.objects[i]) /\ Len(pg.objects[i].objects) = 2
    /\ ChildIds(cad_objs, 1) = <<1, 2, 3, 3>>

\* C25: in tessellate_group the bounding-box pass starts only when the mesh
\* of every entry of the shape table has been produced, in the order of the
\* table, and it adds no mesh; from the start of tessellate_group to the end
\* of the bounding-box pass no step changes the shape table.
C25_BoxesAfterMeshes ==
    [][/\ (pc = "tess" /\ pc' # "tess" /\ err' # "MeshError") =>
              /\ Len(meshed_instances) = Len(instances)
              /\ \A i \in 1..Len(instances) :
                     meshed_instances[i] = tessellate(instances[i].shape)
              /\ meshed_instances' = meshed_instances
       /\ (pc = "tess" /\ pc' = "tess") => shapes' = shapes
       /\ (pc' = "tess" \/ pc = "tess") => instances' = instances]_vars

\* the bounding-box pass has given the first leaf a box, after two meshes
C25_Witness ==
    /\ pc = "done"
    /\ runs = 0
    /\ Len(meshed_instances) = 2
    /\ Len(shapes.parts) > 0
    /\ shapes.parts[1].leaf
    /\ shapes.parts[1].bb # NoBB

\* C26: a step of tessellate_group only adds a mesh: the shape table has the
\* length it had, every entry keeps its topology key and its raw shape at
\* its index, the meshes already made stay, and the tree is not touched.
C26_OnlyMeshesAdded ==
    [][(TessStart \/ TessInstance \/ TessRaise \/ TessFinish) =>
           /\ Len(instances') = Len(instances)
           /\ \A i \in 1..Len(instances) :
                  /\ instances'[i].key = instances[i].key
                  /\ instances'[i].shape = instances[i].shape
           /\ pc = "tess" => IsPrefix(meshed_instances, meshed_instances')
           /\ pg' = pg]_vars

\* tessellate_group has returned for a table of two entries, the first a
\* shape that is stored with a pose of its own
C26_Witness ==
    /\ pc = "done"
    /\ Len(instances) = 2
    /\ instances[1].shape.loc # identity_location
    /\ Len(meshed_instances) = Len(instances)

RECURSIVE DictLeaves(_)
\* the dicts of the leaves of a tree of dicts
DictLeaves(tree) ==
    IF tree.leaf THEN {tree}
    ELSE UNION {DictLeaves(tree.parts[i]) : i \in 1..Len(tree.parts)}

\* C27 (as stated): the bounding-box pass of tessellate_group does not fail,
\* whatever tree the builder has produced, and when it is over every leaf
\* that shows shapes, by an instance_ref or inline, has its box.
C27_EveryLeafBoxed ==
    [][TessFinish =>
           /\ pc' = "done"
           /\ err' = ""
           /\ \A leaf \in DictLeaves(shapes') :
                  (leaf.ref # NoneRef \/ Len(leaf.shape) > 0) => leaf.bb # NoBB]_vars

\* C28 (as stated): for every object of the call that reaches get_instance,
\* wrapper or raw kernel shape, relocate returns a shape of the same
\* topology identity in the identity pose and the location that, applied
\* to it, gives back the pose of the object.
C28_Relocate ==
    \A i \in 1..Len(cad_objs) :
        cad_objs[i] \in InstanceInputs =>
            LET r == relocate(cad_objs[i])
            IN  /\ r.obj.tshape = cad_objs[i].tshape
                /\ r.obj.loc = identity_location
                /\ \A j \in 1..Len(r.obj.elems) : r.obj.elems[j].loc = identity_location
                /\ Mul(r.loc, r.obj.loc) = cad_objs[i].loc

RECURSIVE NoRefs(_)
\* a subtree with its instance indices left out: a reference is kept as a
\* reference, to no matter which entry
NoRefs(node) ==
    [node EXCEPT !.ref = IF @ = NoneRef THEN NoneRef ELSE 0,
                 !.objects = [i \in 1..Len(node.objects) |-> NoRefs(node.objects[i])]]

\* what the iteration at hand builds for an object when nothing precedes
\* it: the loop body run from the state a call begins with
Alone(o) ==
    ProcessObj([pg |-> OCP_PartGroup(<<>>, "Group", identity_location),
                instances |-> <<>>, is_assembly |-> FALSE, err |-> "", diag |-> 0],
               l_names[k + 1], l_colors[k + 1], l_alphas[k + 1], o).pg.objects

\* the nodes an iteration has added to a group
AddedTo(before, after) ==
    [i \in 1..(Len(after.objects) - Len(before.objects)) |->
        after.objects[Len(before.objects) + i]]

\* C29 (as stated): the subtree the loop builds for an input is, instance
\* indices apart, the one it builds when nothing precedes the input; it is
\* put after the nodes of the inputs before it, and the name and the pose of
\* the enclosing group stay; a cadquery assembly yields a group of its own
\* with the pose of the assembly.
C29_InputsIndependent ==
    [][\A o \in Inputs :
           (LoopBody(o) /\ err' = "") =>
               /\ pg'.name = pg.name
               /\ pg'.loc = pg.loc
               /\ IsPrefix(pg.objects, pg'.objects)
               /\ [i \in 1..Len(AddedTo(pg, pg')) |-> NoRefs(AddedTo(pg, pg')[i])]
                      = [i \in 1..Len(Alone(o)) |-> NoRefs(Alone(o)[i])]
               /\ o.kind \in {"cq_assembly", "cq_massembly"} =>
                      /\ Len(AddedTo(pg, pg')) = 1
                      /\ IsGroup(AddedTo(pg, pg')[1])
                      /\ AddedTo(pg, pg')[1].loc = o.loc]_vars

\* C30: a call of to_assembly, with or without show_parent, over a finite
\* nesting of inputs and finite chains of parents comes to its end: it
\* returns the tree or raises.
C30_Terminates == <>(pc \in {"built", "raised"})

\* a call with show_parent has returned after a walk over a chain of
\* MaxParents parents
C30_Witness ==
    /\ pc = "built"
    /\ show_parent
    /\ topo
    /\ Len(parents) = MaxParents
    /\ Len(cad_objs) = 1
    /\ Len(pg.objects) = MaxParents + 1

====
